---- MODULE Spec2Model ----
(***************************************************************************)
(* Model of src/app.py (SINTA Live Parser): the field extractors, the item *)
(* parser, the deduplicator and the pagination loop of the crawl.          *)
(*                                                                         *)
(* Text is a sequence of one-character strings, so that the regular       *)
(* expressions of the source act on characters as they do in Python.      *)
(* An item (div.ar-list-item) is the sequence of its child elements, each  *)
(* [tag, cls, has_href, href, text]; a page (html) is the sequence of its  *)
(* items.                                                                  *)
(***************************************************************************)
EXTENDS Integers, Sequences, FiniteSets, TLC

(***************************************************************************)
(* Characters and the primitive string operations of Python / re          *)
(***************************************************************************)
UpperChars == <<"A","B","C","D","E","F","G","H","I","J","K","L","M",
                "N","O","P","Q","R","S","T","U","V","W","X","Y","Z">>
LowerChars == <<"a","b","c","d","e","f","g","h","i","j","k","l","m",
                "n","o","p","q","r","s","t","u","v","w","x","y","z">>
Range(f) == {f[i] : i \in DOMAIN f}

DigitChars == {"0","1","2","3","4","5","6","7","8","9"}

\* the cased letters of U+00C0 to U+00FE, upper and lower in the same order
UpperLatin1 == <<"À","Á","Â","Ã","Ä","Å","Æ","Ç","È","É",
                "Ê","Ë","Ì","Í","Î","Ï","Ð","Ñ","Ò","Ó",
                "Ô","Õ","Ö","Ø","Ù","Ú","Û","Ü","Ý","Þ">>
LowerLatin1 == <<"à","á","â","ã","ä","å","æ","ç","è","é",
                "ê","ë","ì","í","î","ï","ð","ñ","ò","ó",
                "ô","õ","ö","ø","ù","ú","û","ü","ý","þ">>

\* the letters of \u00c0-\u00d6, \u00d8-\u00f6 and \u00f8-\u00ff
Latin1Letters == Range(UpperLatin1) \cup Range(LowerLatin1) \cup {"ß", "ÿ"}

\* the other alphanumeric characters up to U+00FF: the ordinal indicators, the
\* micro sign, the superscript digits and the fractions
Latin1Numerics == {"ª","²","³","µ","¹","º","¼","½","¾"}

\* the vertical tab, the separators FS, GS, RS and US, the next-line character and
\* the no-break space, written as the characters themselves
SpaceControls == {"", "", "", "", "", "", " "}

\* \s of re on str, which is also the set str.strip() removes: the characters for
\* which str.isspace() holds (those above U+00FF, U+1680 to U+3000, are not
\* characters a string of this module can hold)
IsSpace(c) == c \in {" ", "\n", "\t", "\r", "\f"} \cup SpaceControls
\* \d of re
IsDigit(c) == c \in DigitChars
\* [A-Za-z]
IsLetter(c) == c \in Range(UpperChars) \cup Range(LowerChars)
\* \w of re on str: the characters for which str.isalnum() holds, and "_" (those
\* above U+00FF are not characters a string of this module can hold)
IsWord(c) ==
    \/ IsLetter(c)
    \/ IsDigit(c)
    \/ c = "_"
    \/ c \in Latin1Letters \cup Latin1Numerics

\* str.lower() on one character
LowerChar(c) ==
    IF c \in Range(UpperChars)
    THEN LowerChars[CHOOSE i \in DOMAIN UpperChars : UpperChars[i] = c]
    ELSE IF c \in Range(UpperLatin1)
    THEN LowerLatin1[CHOOSE i \in DOMAIN UpperLatin1 : UpperLatin1[i] = c]
    ELSE c

\* str.lower()
Lower(s) == [i \in DOMAIN s |-> LowerChar(s[i])]

\* s[i-1:] (1-based suffix from i)
From(s, i) == SubSeq(s, i, Len(s))

\* pat occurs in s at position i
MatchAt(pat, s, i) ==
    /\ i >= 1
    /\ i + Len(pat) - 1 <= Len(s)
    /\ SubSeq(s, i, i + Len(pat) - 1) = pat

\* `pat in s`
Contains(pat, s) == \E i \in 1..(Len(s) + 1) : MatchAt(pat, s, i)

\* \b of re at the gap before position i (1 <= i <= Len(s)+1)
WordBoundary(s, i) ==
    LET before == i > 1 /\ i - 1 <= Len(s) /\ IsWord(s[i - 1])
        after  == i >= 1 /\ i <= Len(s) /\ IsWord(s[i])
    IN before # after

\* re.search(r"\bW\b", s) for a literal W
HasWord(s, w) ==
    \E i \in 1..(Len(s) + 1) :
        MatchAt(w, s, i) /\ WordBoundary(s, i) /\ WordBoundary(s, i + Len(w))

\* first position >= i whose character is not whitespace (Len(s)+1 if none): \s*
RECURSIVE SkipSpace(_, _)
SkipSpace(s, i) ==
    IF i <= Len(s) /\ IsSpace(s[i]) THEN SkipSpace(s, i + 1) ELSE i

\* first position >= i whose character is not a digit: \d*
RECURSIVE SkipDigits(_, _)
SkipDigits(s, i) ==
    IF i <= Len(s) /\ IsDigit(s[i]) THEN SkipDigits(s, i + 1) ELSE i

\* str.strip(): whitespace removed at both ends
RECURSIVE LStrip(_)
LStrip(s) == IF s # <<>> /\ IsSpace(s[1]) THEN LStrip(Tail(s)) ELSE s
RECURSIVE RStrip(_)
RStrip(s) ==
    IF s # <<>> /\ IsSpace(s[Len(s)]) THEN RStrip(SubSeq(s, 1, Len(s) - 1)) ELSE s
Strip(s) == RStrip(LStrip(s))

\* str.strip(chars)
RECURSIVE LStripChars(_, _)
LStripChars(s, cs) ==
    IF s # <<>> /\ s[1] \in cs THEN LStripChars(Tail(s), cs) ELSE s
RECURSIVE RStripChars(_, _)
RStripChars(s, cs) ==
    IF s # <<>> /\ s[Len(s)] \in cs
    THEN RStripChars(SubSeq(s, 1, Len(s) - 1), cs) ELSE s
StripChars(s, cs) == RStripChars(LStripChars(s, cs), cs)

\* re.sub(r"\s+", " ", s)
RECURSIVE CollapseSpace(_)
CollapseSpace(s) ==
    IF s = <<>> THEN <<>>
    ELSE IF IsSpace(s[1])
         THEN <<" ">> \o CollapseSpace(From(s, SkipSpace(s, 1)))
         ELSE <<s[1]>> \o CollapseSpace(Tail(s))

\* sep.join(parts)
RECURSIVE Join(_, _)
Join(sep, parts) ==
    IF parts = <<>> THEN <<>>
    ELSE IF Len(parts) = 1 THEN parts[1]
    ELSE parts[1] \o sep \o Join(sep, Tail(parts))

\* s.split("\n")
RECURSIVE SplitLines(_)
SplitLines(s) ==
    IF \A i \in DOMAIN s : s[i] # "\n" THEN <<s>>
    ELSE LET k == CHOOSE i \in DOMAIN s :
                      s[i] = "\n" /\ \A j \in 1..(i - 1) : s[j] # "\n"
         IN <<SubSeq(s, 1, k - 1)>> \o SplitLines(From(s, k + 1))

\* smallest member of a non-empty set of integers
Min(S) == CHOOSE x \in S : \A y \in S : x <= y

(***************************************************************************)
(* Field extractors                                                        *)
(***************************************************************************)
clean_text(x) == Strip(CollapseSpace(x))

\* positions where \b(19\d{2}|20\d{2})\b matches
YearAt(text, i) ==
    /\ i >= 1
    /\ i + 3 <= Len(text)
    /\ WordBoundary(text, i)
    /\ \/ (text[i] = "1" /\ text[i + 1] = "9")
       \/ (text[i] = "2" /\ text[i + 1] = "0")
    /\ IsDigit(text[i + 2])
    /\ IsDigit(text[i + 3])
    /\ WordBoundary(text, i + 4)

extract_year(text) ==
    LET hits == {i \in 1..Len(text) : YearAt(text, i)}
    IN IF hits = {} THEN <<>> ELSE SubSeq(text, Min(hits), Min(hits) + 3)

\* end (exclusive) of the greedy run [^\s<]+ starting at i
RECURSIVE SkipDoiToken(_, _)
SkipDoiToken(s, i) ==
    IF i <= Len(s) /\ ~IsSpace(s[i]) /\ s[i] # "<"
    THEN SkipDoiToken(s, i + 1) ELSE i

\* \bDOI\s*: matched at i (case-insensitive); the position after the colon, 0 if none
DoiLabelEnd(text, i) ==
    LET low == Lower(text)
        c   == SkipSpace(text, i + 3)
    IN IF /\ MatchAt(<<"d","o","i">>, low, i)
          /\ WordBoundary(text, i)
          /\ c <= Len(text)
          /\ text[c] = ":"
       THEN c + 1 ELSE 0

\* \bDOI\s*:\s*([^\s<]+) matched at i: <<start, end>> of group 1, <<0, 0>> if none
DoiAt(text, i) ==
    LET e == DoiLabelEnd(text, i)
        g == SkipSpace(text, e)
        h == SkipDoiToken(text, g)
    IN IF e > 0 /\ h > g THEN <<g, h>> ELSE <<0, 0>>

\* (the em dash placeholder of line 22 is not a character a string of this module
\* can hold)
extract_doi(text) ==
    LET hits == {i \in 1..Len(text) : DoiAt(text, i)[1] > 0}
        m    == DoiAt(text, Min(hits))
        doi  == IF hits = {} THEN <<>> ELSE Strip(SubSeq(text, m[1], m[2] - 1))
    IN IF doi = <<"-">> \/ Lower(doi) \in {<<"n","/","a">>, <<"n","a">>}
       THEN <<>> ELSE doi

\* Accred\s*:\s*Sinta\s*(\d) matched at i: the position of the digit, 0 if none
SintaAt(text, i) ==
    LET low == Lower(text)
        c   == SkipSpace(text, i + 6)
        s   == SkipSpace(text, c + 1)
        d   == SkipSpace(text, s + 5)
    IN IF /\ MatchAt(<<"a","c","c","r","e","d">>, low, i)
          /\ c <= Len(text) /\ text[c] = ":"
          /\ MatchAt(<<"s","i","n","t","a">>, low, s)
          /\ d <= Len(text) /\ IsDigit(text[d])
       THEN d ELSE 0

extract_sinta(text) ==
    LET hits == {i \in 1..Len(text) : SintaAt(text, i) > 0}
    IN IF hits = {} THEN <<>> ELSE <<text[SintaAt(text, Min(hits))]>>

\* Author Order\s*:\s*\d+\s*of\s*\d+\s* matched at i (case-insensitive):
\* the position after the match, 0 if none
AuthorOrderEnd(t, i) ==
    LET low == Lower(t)
        c   == SkipSpace(t, i + 12)
        d1  == SkipSpace(t, c + 1)
        e1  == SkipDigits(t, d1)
        o   == SkipSpace(t, e1)
        d2  == SkipSpace(t, o + 2)
        e2  == SkipDigits(t, d2)
    IN IF /\ MatchAt(<<"a","u","t","h","o","r"," ","o","r","d","e","r">>, low, i)
          /\ c <= Len(t) /\ t[c] = ":"
          /\ e1 > d1
          /\ MatchAt(<<"o","f">>, low, o)
          /\ e2 > d2
       THEN SkipSpace(t, e2) ELSE 0

\* re.sub(r"Author Order\s*:\s*\d+\s*of\s*\d+\s*", "", t, flags=re.I)
RECURSIVE RemoveAuthorOrder(_)
RemoveAuthorOrder(t) ==
    IF t = <<>> THEN <<>>
    ELSE IF AuthorOrderEnd(t, 1) > 0
         THEN RemoveAuthorOrder(From(t, AuthorOrderEnd(t, 1)))
         ELSE <<t[1]>> \o RemoveAuthorOrder(Tail(t))

\* \bAccred\s*: matched at i (case-insensitive)
AccredLabelAt(t, i) ==
    LET c == SkipSpace(t, i + 6)
    IN /\ MatchAt(<<"a","c","c","r","e","d">>, Lower(t), i)
       /\ WordBoundary(t, i)
       /\ c <= Len(t) /\ t[c] = ":"

\* the characters of the class of line 51: the letters, with those of U+00C0 to
\* U+00FF, and ' . - and the space (the typographic apostrophe of the class is not
\* a character a string of this module can hold)
IsNameChar(c) == IsLetter(c) \/ c \in Latin1Letters \/ c \in {"'", ".", "-", " "}

\* [..]+,\s*[..]+ matches the first n characters of authors
AuthorShapeTo(authors, n) ==
    \E k \in 2..n :
        /\ authors[k] = ","
        /\ \A i \in 1..(k - 1) : IsNameChar(authors[i])
        /\ \E m \in (k + 1)..n :
              /\ \A i \in (k + 1)..(m - 1) : IsSpace(authors[i])
              /\ \A i \in m..n : IsNameChar(authors[i])

\* re.match(r"^[..]+,\s*[..]+$", authors): $ is the end of the string, or the
\* place before a newline that is its last character
AuthorShape(authors) ==
    \/ AuthorShapeTo(authors, Len(authors))
    \/ /\ authors # <<>>
       /\ authors[Len(authors)] = "\n"
       /\ AuthorShapeTo(authors, Len(authors) - 1)

\* (of the characters stripped at line 45, the en and em dashes are not characters
\* a string of this module can hold)
extract_authors_from_meta(meta_text) ==
    LET t0      == clean_text(meta_text)
        t       == Strip(RemoveAuthorOrder(t0))
        cuts    == {i \in 1..Len(t) :
                       YearAt(t, i) \/ DoiLabelEnd(t, i) > 0 \/ AccredLabelAt(t, i)}
        cut_pos == IF cuts = {} THEN Len(t) ELSE Min(cuts) - 1
        authors == clean_text(StripChars(SubSeq(t, 1, cut_pos), {" ", "-", "|"}))
    IN IF authors = <<>> THEN <<>>
       ELSE IF /\ ~Contains(<<";">>, authors)
               /\ ~Contains(<<",">>, authors)
               /\ ~AuthorShape(authors)
            THEN <<>>
       ELSE authors

(***************************************************************************)
(* The item: BeautifulSoup lookups on a div.ar-list-item                   *)
(***************************************************************************)
\* tag.get_text(" ", strip=True) of an element that holds one text node
ElemText(el) == Strip(el.text)

\* the stripped, non-empty text nodes of the item, in document order
RECURSIVE TextNodes(_)
TextNodes(item) ==
    IF item = <<>> THEN <<>>
    ELSE (IF ElemText(item[1]) = <<>> THEN <<>> ELSE <<ElemText(item[1])>>)
         \o TextNodes(Tail(item))

\* item.get_text(sep, strip=True)
get_text(item, sep) == Join(sep, TextNodes(item))

\* item.find(tag, class_=re.compile(r"\bCLS\b")): index of the first such child, 0 if none
FindByClass(item, tag, cls) ==
    LET hits == {i \in DOMAIN item : item[i].tag = tag /\ HasWord(item[i].cls, cls)}
    IN IF hits = {} THEN 0 ELSE Min(hits)

\* the noise test shared by the title and the authors fallbacks
IsNoise(low) ==
    \/ Contains(<<"a","u","t","h","o","r"," ","o","r","d","e","r">>, low)
    \/ Contains(<<"a","c","c","r","e","d">>, low)
    \/ Contains(<<"d","o","i",":">>, low)

\* re.search(r"\bvol\b|\bno\b|\bvolume\b", s)
HasVolNoLower(s) ==
    \/ HasWord(s, <<"v","o","l">>)
    \/ HasWord(s, <<"n","o">>)
    \/ HasWord(s, <<"v","o","l","u","m","e">>)

\* re.search(r"\bVol\b|\bNo\b|\bVolume\b", s)
HasVolNo(s) ==
    \/ HasWord(s, <<"V","o","l">>)
    \/ HasWord(s, <<"N","o">>)
    \/ HasWord(s, <<"V","o","l","u","m","e">>)

title_from_item(item) ==
    LET detail == {i \in DOMAIN item :
                      /\ item[i].tag = "a"
                      /\ item[i].has_href
                      /\ Contains(<<"d","o","c","u","m","e","n","t","s","/",
                                    "d","e","t","a","i","l","/">>, Lower(item[i].href))}
        txt(i) == clean_text(ElemText(item[i]))
        cands  == {i \in DOMAIN item :
                      /\ item[i].tag = "a"
                      /\ item[i].has_href
                      /\ Len(txt(i)) >= 8
                      /\ ~IsNoise(Lower(txt(i)))
                      /\ ~HasVolNoLower(Lower(txt(i)))}
    IN IF detail # {} THEN txt(Min(detail))
       ELSE IF cands # {} THEN txt(Min(cands))
       ELSE <<>>

journal_from_item(item) ==
    LET pub   == FindByClass(item, "a", <<"a","r","-","p","u","b">>)
        lines == SplitLines(get_text(item, <<"\n">>))
        hits  == {i \in DOMAIN lines : Strip(lines[i]) # <<>> /\ HasVolNo(Strip(lines[i]))}
    IN IF pub > 0 THEN clean_text(ElemText(item[pub]))
       ELSE IF hits # {} THEN clean_text(Strip(lines[Min(hits)]))
       ELSE <<>>

year_from_item(item) ==
    LET y == FindByClass(item, "a", <<"a","r","-","y","e","a","r">>)
    IN IF y > 0 THEN extract_year(ElemText(item[y]))
       ELSE extract_year(get_text(item, <<" ">>))

doi_from_item(item) ==
    LET cited == FindByClass(item, "a", <<"a","r","-","c","i","t","e","d">>)
        doi   == IF cited > 0 THEN extract_doi(ElemText(item[cited])) ELSE <<>>
    IN IF doi # <<>> THEN doi ELSE extract_doi(get_text(item, <<" ">>))

sinta_from_item(item) == extract_sinta(get_text(item, <<" ">>))

authors_from_item(item) ==
    LET metas == {i \in DOMAIN item :
                     /\ item[i].tag = "div"
                     /\ HasWord(item[i].cls, <<"a","r","-","m","e","t","a">>)
                     /\ HasWord(Lower(ElemText(item[i])),
                                <<"a","u","t","h","o","r"," ","o","r","d","e","r">>)}
        a     == IF metas = {} THEN <<>>
                 ELSE extract_authors_from_meta(ElemText(item[Min(metas)]))
        txt(i) == clean_text(ElemText(item[i]))
        cands == {i \in DOMAIN item :
                     /\ item[i].tag = "a"
                     /\ txt(i) # <<>>
                     /\ ~IsNoise(Lower(txt(i)))
                     /\ ~HasVolNoLower(Lower(txt(i)))
                     /\ Contains(<<";">>, txt(i))}
    IN IF a # <<>> THEN a
       ELSE IF cands # {} THEN txt(Min(cands))
       ELSE <<>>

(***************************************************************************)
(* Item parser                                                             *)
(***************************************************************************)
\* the row built from one item (app.py 139-147)
Row(it, source) ==
    [Judul_Artikel |-> title_from_item(it),
     Tahun         |-> year_from_item(it),
     Authors       |-> authors_from_item(it),
     Nama_Jurnal   |-> journal_from_item(it),
     Sinta         |-> sinta_from_item(it),
     DOI           |-> doi_from_item(it),
     SourceFile    |-> source]

\* a filter that tests the year column in place of the journal column
KeepItemMut(it) ==
    \/ title_from_item(it) # <<>>
    \/ doi_from_item(it) # <<>>
    \/ year_from_item(it) # <<>>

\* `title or doi or journal`
KeepItem(it) ==
    \/ title_from_item(it) # <<>>
    \/ doi_from_item(it) # <<>>
    \/ journal_from_item(it) # <<>>

\* the loop of parse_one_page over the items after the first n, rows so far given
RECURSIVE ParseLoop(_, _, _)
ParseLoop(items, source, rows) ==
    IF items = <<>> THEN rows
    ELSE IF ~KeepItem(items[1]) THEN ParseLoop(Tail(items), source, rows)
    ELSE ParseLoop(Tail(items), source, Append(rows, Row(items[1], source)))

\* soup.select("div.ar-list-item"): the items of the body, in document order
select(html) == html.items

parse_one_page(html, source) == ParseLoop(select(html), source, <<>>)

(***************************************************************************)
(* Deduplicator                                                            *)
(***************************************************************************)
\* the five columns smart_dedup normalises (app.py 156-157)
clean_row(r) ==
    [r EXCEPT !.Judul_Artikel = clean_text(@),
              !.Tahun         = clean_text(@),
              !.Authors       = clean_text(@),
              !.Nama_Jurnal   = clean_text(@),
              !.DOI           = clean_text(@)]

\* the key is one string: the parts are joined with "|"
make_key(r) ==
    IF r.DOI # <<>>
    THEN <<"D","O","I","|">> \o Lower(r.DOI)
    ELSE <<"M","E","T","A","|">> \o
         Join(<<"|">>, <<Lower(r.Judul_Artikel), Lower(r.Tahun),
                         Lower(r.Nama_Jurnal), Lower(r.Authors)>>)

\* drop_duplicates(subset=["__key__"], keep="first")
RECURSIVE drop_duplicates(_, _)
drop_duplicates(rows, keys) ==
    IF rows = <<>> THEN <<>>
    ELSE IF make_key(rows[1]) \in keys
         THEN drop_duplicates(Tail(rows), keys)
         ELSE <<rows[1]>> \o drop_duplicates(Tail(rows), keys \cup {make_key(rows[1])})

\* df[col] = df[col].fillna("").astype(str).map(clean_text), row by row
RECURSIVE clean_rows(_)
clean_rows(df) ==
    IF df = <<>> THEN <<>> ELSE <<clean_row(df[1])>> \o clean_rows(Tail(df))

\* On a frame without rows df.apply(make_key, axis=1) gives back a frame of the
\* seven columns (make_key fails on the probe row, so apply does not reduce), and
\* the assignment of a frame to the one column "__key__" raises ValueError.
\* Otherwise the cleaned table is computed once, then its duplicates are dropped.
smart_dedup(df) ==
    IF df = <<>>
    THEN [raised |-> TRUE, df |-> <<>>]
    ELSE [raised |-> FALSE,
          df |-> CHOOSE after \in {drop_duplicates(cleaned, {}) :
                                      cleaned \in {clean_rows(df)}} : TRUE]

(***************************************************************************)
(* The crawl (the body of `if run:`)                                       *)
(***************************************************************************)
VARIABLES
    max_pages_cap,   \* the "Max pages (safety cap)" input
    page,            \* the loop variable
    pc,              \* "loop": in the for loop; "post": after it; "done": script ended
    all_parts,       \* list of the per-page tables
    seen_page_fps,   \* set of the fingerprints seen in this run
    empty_streak,    \* consecutive parsed pages with 0 rows
    status,          \* what the status placeholder shows (the last status.write)
    errors,          \* the st.error messages shown
    result,          \* how the script ended: warning, success or exception
    table,           \* the table shown and exported
    requests,        \* the page indices passed to sess.get, in order
    responses,       \* what sess.get returned for them
    dedup_in,        \* deduplicator on its own: the input table
    dedup_out,       \*   the output table
    dedup_done,      \*   smart_dedup has returned
    dedup_raised,    \*   smart_dedup has raised
    year_item,       \* year extractor on its own: the item
    year_out,        \*   the extracted year
    year_done        \*   year_from_item has run

crawlVars == <<max_pages_cap, page, pc, all_parts, seen_page_fps, empty_streak,
               status, errors, result, table, requests, responses>>
dedupVars == <<dedup_in, dedup_out, dedup_done, dedup_raised>>
yearVars  == <<year_item, year_out, year_done>>
vars      == <<crawlVars, dedupVars, yearVars>>

\* largest cap the model tries (the input allows 1..500)
MaxCap == 4

\* str(n) for n >= 0
RECURSIVE DecimalStr(_)
DecimalStr(n) ==
    LET d == <<"0","1","2","3","4","5","6","7","8","9">>[(n % 10) + 1]
    IN IF n < 10 THEN <<d>> ELSE DecimalStr(n \div 10) \o <<d>>

\* f"page_{page}"
source_of(p) == <<"p","a","g","e","_">> \o DecimalStr(p)

\* the items the modelled site serves
ItemV1 ==
    <<[tag |-> "a", cls |-> <<>>, has_href |-> TRUE, href |-> <<"d","o","c","u","m","e","n","t","s","/","d","e","t","a","i","l","/","1">>, text |-> <<"A","b">>],
      [tag |-> "a", cls |-> <<"a","r","-","c","i","t","e","d">>, has_href |-> FALSE, href |-> <<>>, text |-> <<"D","O","I",":"," ","X","/","1">>]>>
ItemV1d ==
    <<[tag |-> "a", cls |-> <<>>, has_href |-> TRUE, href |-> <<"d","o","c","u","m","e","n","t","s","/","d","e","t","a","i","l","/","9">>, text |-> <<"A","b"," ","c">>],
      [tag |-> "a", cls |-> <<"a","r","-","c","i","t","e","d">>, has_href |-> FALSE, href |-> <<>>, text |-> <<"d","o","i",":"," ","x","/","1">>]>>
ItemV2 ==
    <<[tag |-> "a", cls |-> <<"a","r","-","p","u","b">>, has_href |-> FALSE, href |-> <<>>, text |-> <<"J"," ","V","o","l"," ","1">>],
      [tag |-> "a", cls |-> <<"a","r","-","y","e","a","r">>, has_href |-> FALSE, href |-> <<>>, text |-> <<"2","0","2","0">>]>>
ItemN1 ==
    <<[tag |-> "a", cls |-> <<"a","r","-","y","e","a","r">>, has_href |-> FALSE, href |-> <<>>, text |-> <<"2","0","2","0">>]>>
ItemN2 ==
    <<[tag |-> "a", cls |-> <<"a","r","-","c","i","t","e","d">>, has_href |-> FALSE, href |-> <<>>, text |-> <<"D","O","I",":"," ","-">>]>>

\* a response body (r.text): its div.ar-list-item elements and the text that
\* follows the last of them
Html(items, rest) == [items |-> items, rest |-> rest]

\* the bodies the modelled site serves: three without a valid item and three with
\* valid items; in each group two bodies hold the same items and differ in a
\* trailing newline
PagePool ==
    { Html(<<>>, <<>>),
      Html(<<>>, <<"\n">>),
      Html(<<ItemN1, ItemN2>>, <<>>),
      Html(<<ItemV1, ItemN1, ItemV2>>, <<>>),
      Html(<<ItemV2, ItemV1d>>, <<>>),
      Html(<<ItemV2, ItemV1d>>, <<"\n">>) }

\* hashlib.md5(html.encode(...)).hexdigest() of the whole body: a digest, equal
\* exactly for equal bodies (MD5 collisions are not modelled)
page_fp(html) == <<"md5", html>>

\* the two stop messages written to the status placeholder (app.py 290, 303)
StoppedIdentical(p) == <<"Stopped: identical to a previous page", p>>
StoppedEmpty == <<"Stopped: 2 pages in a row returned 0 rows">>

\* a loop that never recognises a repeated page
IsRepeatMut(fp, seen) == FALSE

\* `page_fp in seen_page_fps`
IsRepeat(fp, seen) == fp \in seen

\* a counter that a non-empty page does not reset
StreakAfterMut(streak, n) == IF n = 0 THEN streak + 1 ELSE streak

\* the counter after a parsed page with n rows (app.py 300-306)
StreakAfter(streak, n) == IF n = 0 THEN streak + 1 ELSE 0

\* the loop breaks on the empty streak (app.py 300-304)
StreakStops(streak, n) == n = 0 /\ streak + 1 >= 2

\* a range that runs one page past the cap
LoopEndsMut(p, cap) == p = cap + 1

\* range(1, int(max_pages_cap) + 1) is exhausted after page p (app.py 277)
LoopEnds(p, cap) == p = cap

\* pd.concat(all_parts, ignore_index=True)
RECURSIVE concat(_)
concat(parts) == IF parts = <<>> THEN <<>> ELSE parts[1] \o concat(Tail(parts))

\* df.insert(0, "No", range(1, len(df) + 1)) and the column selection
WithNo(df) ==
    [i \in DOMAIN df |->
        [No            |-> i,
         Judul_Artikel |-> df[i].Judul_Artikel,
         Tahun         |-> df[i].Tahun,
         Authors       |-> df[i].Authors,
         Nama_Jurnal   |-> df[i].Nama_Jurnal,
         Sinta         |-> df[i].Sinta,
         DOI           |-> df[i].DOI,
         SourceFile    |-> df[i].SourceFile]]

IdleDedup ==
    dedup_in = <<>> /\ dedup_out = <<>> /\ dedup_done = FALSE /\ dedup_raised = FALSE
IdleYear  == year_item = <<>> /\ year_out = <<>> /\ year_done = FALSE
IdleCrawl ==
    /\ max_pages_cap = 1
    /\ page = 1
    /\ pc = "done"
    /\ all_parts = <<>>
    /\ seen_page_fps = {}
    /\ empty_streak = 0
    /\ status = <<>>
    /\ errors = <<>>
    /\ result = "none"
    /\ table = <<>>
    /\ requests = <<>>
    /\ responses = <<>>

\* the state when the loop is entered (app.py 270-277)
Init ==
    /\ max_pages_cap \in 1..MaxCap
    /\ page = 1
    /\ pc = "loop"
    /\ all_parts = <<>>
    /\ seen_page_fps = {}
    /\ empty_streak = 0
    /\ status = <<>>
    /\ errors = <<>>
    /\ result = "none"
    /\ table = <<>>
    /\ requests = <<>>
    /\ responses = <<>>
    /\ IdleDedup
    /\ IdleYear

\* a failure that throws the accumulated pages away
RequestFailedMut ==
    /\ pc = "loop"
    /\ requests' = Append(requests, page)
    /\ responses' = Append(responses, <<"error">>)
    /\ errors' = Append(errors, <<"Request failed on page", page>>)
    /\ all_parts' = <<>>
    /\ pc' = "post"
    /\ UNCHANGED <<max_pages_cap, page, seen_page_fps, empty_streak,
                   status, result, table>>
    /\ UNCHANGED <<dedupVars, yearVars>>

\* sess.get raises: st.error and break (app.py 280-285)
RequestFailed ==
    /\ pc = "loop"
    /\ requests' = Append(requests, page)
    /\ responses' = Append(responses, <<"error">>)
    /\ errors' = Append(errors, <<"Request failed on page", page>>)
    /\ pc' = "post"
    /\ UNCHANGED <<max_pages_cap, page, all_parts, seen_page_fps, empty_streak,
                   status, result, table>>
    /\ UNCHANGED <<dedupVars, yearVars>>

\* the page's fingerprint was seen before: status and break (app.py 288-291)
PageRepeated ==
    /\ pc = "loop"
    /\ \E html \in PagePool :
          /\ IsRepeat(page_fp(html), seen_page_fps)
          /\ requests' = Append(requests, page)
          /\ responses' = Append(responses, <<"ok", html>>)
          /\ status' = StoppedIdentical(page)
    /\ pc' = "post"
    /\ UNCHANGED <<max_pages_cap, page, all_parts, seen_page_fps, empty_streak,
                   errors, result, table>>
    /\ UNCHANGED <<dedupVars, yearVars>>

\* a new page: parse, accumulate, count the empty streak; the loop goes on to the
\* next page, breaks on the streak, or ends with the range (app.py 292-312)
PageParsed ==
    /\ pc = "loop"
    /\ \E html \in PagePool :
          \E dfp \in {parse_one_page(html, source_of(page))} :
             \E stop \in {StreakStops(empty_streak, Len(dfp))} :
                /\ ~IsRepeat(page_fp(html), seen_page_fps)
                /\ requests' = Append(requests, page)
                /\ responses' = Append(responses, <<"ok", html>>)
                /\ seen_page_fps' = seen_page_fps \cup {page_fp(html)}
                /\ all_parts' = Append(all_parts, dfp)
                /\ empty_streak' = StreakAfter(empty_streak, Len(dfp))
                /\ status' = IF stop
                             THEN StoppedEmpty
                             ELSE <<"Page extracted rows", page, Len(dfp)>>
                /\ pc' = IF stop \/ LoopEnds(page, max_pages_cap)
                         THEN "post" ELSE "loop"
                /\ page' = IF stop \/ LoopEnds(page, max_pages_cap)
                           THEN page ELSE page + 1
    /\ UNCHANGED <<max_pages_cap, errors, result, table>>
    /\ UNCHANGED <<dedupVars, yearVars>>

\* `if not all_parts`: st.warning("No data extracted.") and st.stop() (app.py 314-316)
NoDataExtracted ==
    /\ pc = "post"
    /\ all_parts = <<>>
    /\ result' = "warning: No data extracted"
    /\ pc' = "done"
    /\ UNCHANGED <<max_pages_cap, page, all_parts, seen_page_fps, empty_streak,
                   status, errors, table, requests, responses>>
    /\ UNCHANGED <<dedupVars, yearVars>>

\* concat, dedup, numbering, st.success and the table (app.py 318-334)
ShowTable ==
    /\ pc = "post"
    /\ all_parts # <<>>
    /\ \E df \in {concat(all_parts)} :
          \E after \in {smart_dedup(df)} :
             /\ ~after.raised
             /\ table' = WithNo(after.df)
    /\ result' = "success: Done"
    /\ pc' = "done"
    /\ UNCHANGED <<max_pages_cap, page, all_parts, seen_page_fps, empty_streak,
                   status, errors, requests, responses>>
    /\ UNCHANGED <<dedupVars, yearVars>>

\* every part is an empty DataFrame: the list is not empty, so the warning is
\* skipped; the concatenation has no rows and smart_dedup raises; the script ends
\* with the exception, no table is shown (app.py 314-320)
DedupRaised ==
    /\ pc = "post"
    /\ all_parts # <<>>
    /\ \E df \in {concat(all_parts)} : smart_dedup(df).raised
    /\ result' = "exception"
    /\ table' = <<>>
    /\ pc' = "done"
    /\ UNCHANGED <<max_pages_cap, page, all_parts, seen_page_fps, empty_streak,
                   status, errors, requests, responses>>
    /\ UNCHANGED <<dedupVars, yearVars>>

Next ==
    \/ RequestFailed
    \/ PageRepeated
    \/ PageParsed
    \/ NoDataExtracted
    \/ ShowTable
    \/ DedupRaised

Spec == Init /\ [][Next]_vars

\* the script is one synchronous run: every step that can be taken is taken
FairSpec == Spec /\ WF_vars(Next)

(***************************************************************************)
(* The deduplicator on its own: smart_dedup applied to a table             *)
(***************************************************************************)
\* longest table the model tries
MaxRows == 3

\* rows as parse_one_page builds them (a title link, an ar-pub link, a DOI)
RecA ==
    [Judul_Artikel |-> <<"a","|">>, Tahun |-> <<>>, Authors |-> <<>>,
     Nama_Jurnal |-> <<"b">>, Sinta |-> <<>>, DOI |-> <<>>, SourceFile |-> source_of(1)]
RecB ==
    [Judul_Artikel |-> <<"a">>, Tahun |-> <<>>, Authors |-> <<>>,
     Nama_Jurnal |-> <<"|","b">>, Sinta |-> <<>>, DOI |-> <<>>, SourceFile |-> source_of(1)]
RecC ==
    [Judul_Artikel |-> <<"A","|">>, Tahun |-> <<>>, Authors |-> <<>>,
     Nama_Jurnal |-> <<"B">>, Sinta |-> <<>>, DOI |-> <<>>, SourceFile |-> source_of(2)]
RecD ==
    [Judul_Artikel |-> <<"t">>, Tahun |-> <<>>, Authors |-> <<>>,
     Nama_Jurnal |-> <<>>, Sinta |-> <<>>, DOI |-> <<"X">>, SourceFile |-> source_of(1)]
RecE ==
    [Judul_Artikel |-> <<"u">>, Tahun |-> <<>>, Authors |-> <<>>,
     Nama_Jurnal |-> <<>>, Sinta |-> <<>>, DOI |-> <<"x">>, SourceFile |-> source_of(2)]
RecF ==
    [Judul_Artikel |-> <<"t">>, Tahun |-> <<>>, Authors |-> <<>>,
     Nama_Jurnal |-> <<>>, Sinta |-> <<>>, DOI |-> <<>>, SourceFile |-> source_of(2)]

RecordPool == {RecA, RecB, RecC, RecD, RecE, RecF}

Tables == UNION {[1..k -> RecordPool] : k \in 0..MaxRows}

InitDedup ==
    /\ IdleCrawl
    /\ IdleYear
    /\ dedup_in \in Tables
    /\ dedup_out = <<>>
    /\ dedup_done = FALSE
    /\ dedup_raised = FALSE

\* the call returns the deduplicated table, or raises and returns nothing
RunDedup ==
    /\ ~dedup_done
    /\ ~dedup_raised
    /\ \E after \in {smart_dedup(dedup_in)} :
          /\ dedup_out' = after.df
          /\ dedup_done' = ~after.raised
          /\ dedup_raised' = after.raised
    /\ UNCHANGED <<dedup_in, crawlVars, yearVars>>

SpecDedup == InitDedup /\ [][RunDedup]_vars

(***************************************************************************)
(* The year extractor on its own: year_from_item applied to an item        *)
(***************************************************************************)
\* longest text of the year element the model tries
MaxYearLen == 4

\* a digit pair of a token, a letter, a letter of U+00C0 to U+00FF and a space
YearAlphabet == {"2", "0", "x", "é", " "}
YearTexts == UNION {[1..k -> YearAlphabet] : k \in 0..MaxYearLen}
OtherTexts == {<<>>, <<"1","9","9","9">>, <<"n","o">>}

\* a link with some text, followed by a link that is or is not marked ar-year
YearItems ==
    { <<[tag |-> "a", cls |-> <<>>, has_href |-> TRUE, href |-> <<"/","p">>, text |-> u],
        [tag |-> "a", cls |-> c, has_href |-> FALSE, href |-> <<>>, text |-> t]>> :
      u \in OtherTexts, c \in {<<>>, <<"a","r","-","y","e","a","r">>}, t \in YearTexts }

InitYear ==
    /\ IdleCrawl
    /\ IdleDedup
    /\ year_item \in YearItems
    /\ year_out = <<>>
    /\ year_done = FALSE

RunYear ==
    /\ ~year_done
    /\ year_out' = year_from_item(year_item)
    /\ year_done' = TRUE
    /\ UNCHANGED <<year_item, crawlVars, dedupVars>>

SpecYear == InitYear /\ [][RunYear]_vars

(***************************************************************************)
(* Properties of the crawl, read off the log of requests and responses     *)
(***************************************************************************)
\* request k was answered with a page
Fetched(k) == responses[k][1] = "ok"
Body(k) == responses[k][2]

\* page k came back with a fingerprint an earlier page of the run had
RepeatAt(k) ==
    /\ Fetched(k)
    /\ \E j \in 1..(k - 1) : Fetched(j) /\ page_fp(Body(j)) = page_fp(Body(k))

\* the number of valid Records in the content of page k
Yield(k) == Len(parse_one_page(Body(k), source_of(k)))

\* pages k and k+1 were both fetched and their contents hold no valid Record
EmptyPair(k) ==
    /\ k >= 1
    /\ k + 1 <= Len(responses)
    /\ Fetched(k) /\ Fetched(k + 1)
    /\ Yield(k) = 0 /\ Yield(k + 1) = 0

\* a Record the validity rule calls noise
IsNoiseRecord(r) == r.Judul_Artikel = <<>> /\ r.DOI = <<>> /\ r.Nama_Jurnal = <<>>

\* the reason the run states to the user, "none" when it states none
StatedReason ==
    IF errors # <<>> THEN "transport error"
    ELSE IF status # <<>> /\ status = StoppedIdentical(Len(requests)) THEN "duplicate page"
    ELSE IF status = StoppedEmpty THEN "empty streak"
    ELSE "none"

\* C1: the first page whose fingerprint repeats an earlier one of the run is the
\* last page fetched; the loop is left with the identical-page message, the page
\* is not parsed, and no Record of the accumulated or final table comes from it.
C1_DuplicateStops ==
    \A k \in 1..Len(responses) :
        RepeatAt(k) =>
            /\ k = Len(responses)
            /\ pc # "loop"
            /\ status = StoppedIdentical(k)
            /\ Len(all_parts) = k - 1
            /\ \A j \in DOMAIN all_parts : \A i \in DOMAIN all_parts[j] :
                  all_parts[j][i].SourceFile # source_of(k)
            /\ \A i \in DOMAIN table : table[i].SourceFile # source_of(k)

\* two byte-identical pages 1 and 2 with Records: the run ended after page 2
C1_Witness ==
    /\ pc = "done"
    /\ Len(responses) = 2
    /\ RepeatAt(2)
    /\ Body(1) = Body(2)
    /\ Len(all_parts[1]) >= 1
    /\ table # <<>>

\* C2 as stated: the run ends with the empty-streak message exactly when the last
\* two pages fetched are two consecutive pages whose contents yield no Record, and
\* whenever pages k and k+1 are such a pair the run ends at page k+1 with that message.
C2_EmptyStreakAsStated ==
    /\ \A k \in 1..Len(responses) :
          EmptyPair(k) =>
              /\ Len(responses) = k + 1
              /\ pc # "loop"
              /\ status = StoppedEmpty
    /\ status = StoppedEmpty => EmptyPair(Len(responses) - 1)

\* C2 (amended): the run ends with the empty-streak message exactly when the last
\* two pages fetched yield no Record and the second of them does not repeat the
\* fingerprint of an earlier page; whenever pages k and k+1 are such a pair the run
\* ends at page k+1 with that message, and when page k+1 of an empty pair repeats an
\* earlier fingerprint the run ends at page k+1 with the identical-page message.
\* One empty page, or two empty pages with a non-empty page between, do not end it.
C2_EmptyStreak ==
    /\ \A k \in 1..Len(responses) :
          EmptyPair(k) =>
              /\ Len(responses) = k + 1
              /\ pc # "loop"
              /\ status = IF RepeatAt(k + 1) THEN StoppedIdentical(k + 1) ELSE StoppedEmpty
    /\ status = StoppedEmpty =>
          /\ EmptyPair(Len(responses) - 1)
          /\ ~RepeatAt(Len(responses))

\* an empty page, a page with Records, then two different empty pages
C2_Witness ==
    /\ pc = "done"
    /\ status = StoppedEmpty
    /\ Len(responses) = 4
    /\ Yield(1) = 0
    /\ Yield(2) > 0

\* C3: a run that has ended has stated its stop reason, one of duplicate page,
\* empty streak, cap reached or transport error; a run that fetched every page up
\* to the cap with no other stop states "cap reached".
C3_StopReasonStated ==
    pc = "done" =>
        StatedReason \in {"duplicate page", "empty streak", "cap reached", "transport error"}

\* C4: a run that ends with no Record extracted from any page it fetched ends with
\* the "No data extracted" warning.
C4_EmptyResultReported ==
    (pc = "done" /\ concat(all_parts) = <<>>) => result = "warning: No data extracted"

\* C5: a failed request for page N is the last request of the run; the failure is
\* shown; the tables of pages 1..N-1 are kept as parsed; and every Record of them
\* is represented in the final table by the first Record with its key.
C5_ErrorKeepsPartial ==
    \A k \in 1..Len(responses) :
        ~Fetched(k) =>
            /\ k = Len(responses)
            /\ pc # "loop"
            /\ errors = <<<<"Request failed on page", k>>>>
            /\ Len(all_parts) = k - 1
            /\ \A j \in 1..(k - 1) :
                  all_parts[j] = parse_one_page(Body(j), source_of(j))
            /\ (pc = "done" /\ concat(all_parts) # <<>>) =>
                  /\ result = "success: Done"
                  /\ \A i \in DOMAIN concat(all_parts) :
                        \E t \in DOMAIN table :
                           /\ make_key(table[t]) = make_key(concat(all_parts)[i])
                           /\ (\A h \in 1..(i - 1) :
                                  make_key(concat(all_parts)[h]) # make_key(concat(all_parts)[i]))
                              => table[t].Judul_Artikel = concat(all_parts)[i].Judul_Artikel

\* pages 1 and 2 gave Records, the request for page 3 failed, the table is shown
C5_Witness ==
    /\ pc = "done"
    /\ Len(responses) = 3
    /\ ~Fetched(3)
    /\ Len(all_parts) = 2
    /\ Len(all_parts[1]) >= 1
    /\ Len(all_parts[2]) >= 1
    /\ table # <<>>

\* C8: no noise Record (title, DOI and journal all empty) is in a per-page table,
\* in the accumulated tables or in the final table; the table of a parsed page is
\* the rows of its non-noise items, in document order, noise items skipped.
C8_NoNoiseRecords ==
    /\ \A j \in DOMAIN all_parts : \A i \in DOMAIN all_parts[j] :
          ~IsNoiseRecord(all_parts[j][i])
    /\ \A i \in DOMAIN table : ~IsNoiseRecord(table[i])
    /\ \A j \in DOMAIN all_parts :
          LET items == select(Body(j))
              valid == {i \in DOMAIN items : ~IsNoiseRecord(Row(items[i], source_of(j)))}
              nth(m) == CHOOSE i \in valid : Cardinality({h \in valid : h <= i}) = m
          IN /\ Len(all_parts[j]) = Cardinality(valid)
             /\ \A m \in 1..Len(all_parts[j]) :
                   all_parts[j][m] = Row(items[nth(m)], source_of(j))

\* a page with a noise item between two valid items was parsed into two rows
C8_Witness ==
    /\ pc = "done"
    /\ Len(responses) >= 1
    /\ responses[1] = <<"ok", Html(<<ItemV1, ItemN1, ItemV2>>, <<>>)>>
    /\ Len(all_parts[1]) = 2
    /\ Len(table) = 2

\* C9: the run ends; the pages requested are 1, 2, ..., k in this order, each once,
\* with k at most the cap; and once the loop is left no page is requested.
C9_SequentialAndTerminates ==
    /\ [](/\ requests = [i \in 1..Len(requests) |-> i]
          /\ Len(requests) <= max_pages_cap
          /\ Len(responses) = Len(requests))
    /\ [][pc # "loop" => requests' = requests]_vars
    /\ <>(pc = "done")

\* a run that fetched every page up to a cap of at least 3
C9_Witness ==
    /\ pc = "done"
    /\ max_pages_cap >= 3
    /\ requests = [i \in 1..max_pages_cap |-> i]

(***************************************************************************)
(* Properties of the deduplicator                                          *)
(***************************************************************************)
\* the DedupKey as a tagged tuple: (DOI, lowercased doi) when the doi is not
\* empty, else (META, lowercased title, year, lowercased journal, lowercased authors)
DedupKey(r) ==
    IF r.DOI # <<>>
    THEN <<"DOI", Lower(r.DOI)>>
    ELSE <<"META", Lower(r.Judul_Artikel), r.Tahun, Lower(r.Nama_Jurnal), Lower(r.Authors)>>

\* the rows that are the first of the table with their DedupKey, in order
RECURSIVE FirstSeen(_, _)
FirstSeen(rows, keys) ==
    IF rows = <<>> THEN <<>>
    ELSE IF DedupKey(rows[1]) \in keys
         THEN FirstSeen(Tail(rows), keys)
         ELSE <<rows[1]>> \o FirstSeen(Tail(rows), keys \cup {DedupKey(rows[1])})

\* C6: the output of smart_dedup holds, for every DedupKey of the input, exactly
\* the earliest Record with that key, in the order of the input.
C6_FirstSeenWins ==
    dedup_done => dedup_out = FirstSeen(dedup_in, {})

\* C7: a Record is dropped only if an earlier Record has an equal DedupKey: every
\* Record whose DedupKey differs from that of every earlier Record survives.
C7_MergeOnlyEqualKeys ==
    dedup_done =>
        \A i \in DOMAIN dedup_in :
            (\A j \in 1..(i - 1) : DedupKey(dedup_in[j]) # DedupKey(dedup_in[i]))
            => \E k \in DOMAIN dedup_out : dedup_out[k] = dedup_in[i]

(***************************************************************************)
(* Properties of the year extractor                                        *)
(***************************************************************************)
\* C10: the year is the token of the marked year element when there is such an
\* element and its text holds a token, else the first token of the item's whole
\* text; it is empty only when neither holds a token.
C10_YearFallbackChain ==
    year_done =>
        year_out =
            IF /\ FindByClass(year_item, "a", <<"a","r","-","y","e","a","r">>) > 0
               /\ extract_year(ElemText(year_item[
                      FindByClass(year_item, "a", <<"a","r","-","y","e","a","r">>)])) # <<>>
            THEN extract_year(ElemText(year_item[
                      FindByClass(year_item, "a", <<"a","r","-","y","e","a","r">>)]))
            ELSE extract_year(get_text(year_item, <<" ">>))
====
